---- MODULE Spec2Model ----
(***************************************************************************)
(* Connection pool with background health monitoring                       *)
(* (internal/database/pool.go, internal/database/database.go).             *)
(*                                                                         *)
(* Threads: the caller goroutines of Callers, each running one public pool *)
(* method at a time, and the backgroundMonitor goroutine.  Every action is *)
(* one stretch of code between two points where the goroutine can block    *)
(* (a Lock/RLock call) or does I/O (createRawConnection, Ping).            *)
(*                                                                         *)
(* A *PooledConnection is an entry id 1..MaxEnt of the heap `ents`; the    *)
(* id 0 is the nil pointer.  An entry opens at most one *sql.DB in its     *)
(* life (createConnection allocates a fresh entry for every attempt), so   *)
(* the handle opened for entry e is identified by the same number e, and   *)
(* `handle[e]` is that handle's life cycle.  The DB field of an entry is   *)
(* 0 (nil) or the handle number.                                           *)
(***************************************************************************)
EXTENDS Integers, FiniteSets, Sequences, TLC

VARIABLES
    connections,       \* p.connections: name -> entry id, 0 when the key is absent
    ents,              \* heap of PooledConnection records
    nextEnt,           \* number of PooledConnection records allocated so far
    handle,            \* life cycle of the *sql.DB opened for each entry
    poolW,             \* p.mutex: the goroutine holding the write lock
    poolR,             \* p.mutex: the goroutines holding a read lock
    connMutex,         \* conn.mutex of each entry: goroutine holding it for writing
    cancelled,         \* p.ctx is done
    enableKeepalive,   \* poolConfig.EnableKeepalive
    totalConnections,  \* p.totalConnections
    successfulPings,   \* p.successfulPings
    failedPings,       \* p.failedPings
    now,               \* time.Now(), in ping intervals: the ticker firings so far, plus one
    pc,                \* position of each caller
    loc,               \* locals of each caller's current call
    ev,                \* the return this step made, NoRet when the step returned nothing
    mpc,               \* position of the monitor goroutine
    snap,              \* healthCheck: entries of the snapshot not yet checked
    cur,               \* healthCheck: entry handed to checkConnection
    curUp              \* environment: the backend of cur answers pings during this check

vars == <<connections, ents, nextEnt, handle, poolW, poolR, connMutex, cancelled,
          enableKeepalive,
          totalConnections, successfulPings, failedPings, now,
          pc, loc, ev, mpc, snap, cur, curUp>>

(***************************************************************************)
(* Bounds and configuration                                                *)
(***************************************************************************)
MaxEnt == 2
MaxTime == 3
MaxIdleTime == 1
MaxErrorCount == 2

Callers == {"c1", "c2"}
Mon == "mon"
NoThread == "none"
Configured == {"a", "b"}
AllNames == Configured \cup {"x"}
EntIds == 1..MaxEnt

StateDisconnected == "disconnected"
StateConnecting == "connecting"
StateConnected == "connected"
StateError == "error"
StateIdle == "idle"

ZeroEnt ==
    [Name |-> "", DB |-> 0, State |-> StateDisconnected, LastUsed |-> 0,
     LastPing |-> 0, ErrorCount |-> 0, CreatedAt |-> 0]

NoLoc ==
    [op |-> "", name |-> "", conn |-> 0, old |-> 0, oldState |-> "",
     todo |-> {}, cur |-> "", connected |-> 0, errors |-> 0, acc |-> {},
     total0 |-> 0, t0 |-> 0, quiet |-> FALSE, again |-> FALSE,
     test |-> FALSE]

NoRet ==
    [by |-> "", op |-> "", name |-> "", db |-> 0, err |-> "", conn |-> 0, old |-> 0,
     oldState |-> "", total0 |-> 0, status |-> {}, msg |-> <<>>,
     t0 |-> 0, quiet |-> FALSE, again |-> FALSE, errors |-> 0,
     test |-> FALSE]

\* the monitor is between two health-check passes: it waits for the ticker,
\* has exited, or is about to take p.mutex for the idle cleanup
MonitorQuiet == mpc \in {"wait", "exit", "cleanup", "off"}

Registered == {n \in AllNames : connections[n] # 0}

PoolFree == poolW = NoThread /\ poolR = {}

\* a constructor that starts the monitor whatever the configuration says
StartPcAlways(enabled) == "wait"

\* NewConnectionPool starts the backgroundMonitor goroutine only if
\* keep-alive is enabled; "off": the goroutine does not exist
StartPc(enabled) == IF enabled THEN "wait" ELSE "off"

(***************************************************************************)
(* Init: the state NewConnectionPool returns, for either configuration of  *)
(* keep-alive.                                                             *)
(***************************************************************************)
Init ==
    /\ connections = [n \in AllNames |-> 0]
    /\ ents = [e \in EntIds |-> ZeroEnt]
    /\ nextEnt = 0
    /\ handle = [e \in EntIds |-> "unopened"]
    /\ poolW = NoThread
    /\ poolR = {}
    /\ connMutex = [e \in EntIds |-> NoThread]
    /\ cancelled = FALSE
    /\ enableKeepalive \in BOOLEAN
    /\ totalConnections = 0
    /\ successfulPings = 0
    /\ failedPings = 0
    /\ now = 1
    /\ pc = [c \in Callers |-> "idle"]
    /\ loc = [c \in Callers |-> NoLoc]
    /\ ev = NoRet
    /\ mpc = StartPc(enableKeepalive)
    /\ snap = {}
    /\ cur = 0
    /\ curUp = TRUE

(***************************************************************************)
(* Helpers shared by the callers                                           *)
(*                                                                         *)
(* A caller that is idle and takes a step calls a method and runs it up to *)
(* the first point where it can block or does I/O; a method that a held    *)
(* lock keeps from starting is a call step that is not enabled.            *)
(***************************************************************************)
\* a caller's method returns: deferred unlocks have run, the result is r
Return(c, r) ==
    /\ pc' = [pc EXCEPT ![c] = "idle"]
    /\ loc' = [loc EXCEPT ![c] = NoLoc]
    /\ ev' = [r EXCEPT !.by = c]

\* the locals of a call of op on name n that has reached position p
Begin(c, op, n, p, e, st) ==
    /\ pc' = [pc EXCEPT ![c] = p]
    /\ loc' = [loc EXCEPT ![c] = [NoLoc EXCEPT !.op = op, !.name = n, !.conn = e,
                                               !.oldState = st,
                                               !.total0 = totalConnections]]
    /\ ev' = NoRet

\* the locals of a GetConnection on name n that has reached position p;
\* test: the call is the first statement of Manager.TestConnection
BeginGet(c, n, p, e, st, test) ==
    /\ pc' = [pc EXCEPT ![c] = p]
    /\ loc' = [loc EXCEPT ![c] = [NoLoc EXCEPT !.op = "GetConnection", !.name = n,
                                               !.conn = e, !.oldState = st,
                                               !.total0 = totalConnections,
                                               !.t0 = now, !.test = test]]
    /\ ev' = NoRet

\* a TestConnection that returns what GetConnection returned, without probe
GetConnReturnNoProbe(c, r) == Return(c, r)

\* GetConnection returns r: to its caller, or to TestConnection, which
\* returns the error at once or goes on to db.Ping()
GetConnReturn(c, r) ==
    IF r.test /\ r.err = "nil"
      THEN /\ pc' = [pc EXCEPT ![c] = "tc_ping"]
           /\ loc' = [loc EXCEPT ![c] = [NoLoc EXCEPT !.op = "TestConnection",
                                                      !.name = r.name,
                                                      !.conn = r.db,
                                                      !.test = TRUE]]
           /\ ev' = [r EXCEPT !.by = c]
      ELSE Return(c, r)

(***************************************************************************)
(* GetConnection / createConnection                                        *)
(***************************************************************************)
\* an error value is the chain of its messages, outermost first: Error() is
\* their concatenation and Unwrap() drops the first
ProviderErr == <<"credential provider error">>
DriverErr == <<"driver error">>

\* fmt.Errorf(prefix + ": %w", e)
Errorf(prefix, e) == <<prefix>> \o e

\* createConnection's error for an unconfigured name
NotFoundErr == <<"not found in configuration">>

\* a createRawConnection that reports every failure as an open failure
RawConnErrAsOpen(kind) ==
    Errorf("failed to open database connection", DriverErr)

\* the error of createRawConnection, which createConnection returns as it
\* is: the credential manager failed, or sql.Open failed (the configured
\* names have a supported database type, so buildDSN does not fail)
RawConnErr(kind) ==
    IF kind = "cred"
      THEN Errorf("failed to get credentials", ProviderErr)
      ELSE Errorf("failed to open database connection", DriverErr)

\* createConnection's error for a failed db.Ping()
PingErr == Errorf("failed to ping database", DriverErr)

\* a configuration lookup that finds every name
HasConfigAlways(n) == TRUE

\* p.manager.config.GetConnection(connectionName) finds the name
HasConfig(n) == n \in Configured

\* a fast-path test that never takes the fast path
IsHealthyNever(r) == FALSE

\* a fast-path test that forgets the state
IsHealthyAnyState(r) == r.DB # 0

\* the fast-path test of GetConnection
IsHealthy(r) == r.State = StateConnected /\ r.DB # 0

\* the new PooledConnection of createConnection
NewPooledConn(n, t) ==
    [ZeroEnt EXCEPT !.Name = n, !.State = StateConnecting,
                    !.CreatedAt = t, !.LastUsed = t]

\* a failure branch that forgets to count the error
CreateFailedNoCount(r) ==
    [r EXCEPT !.State = StateError]

\* a failure branch that forgets to set the state
CreateFailedKeepsState(r) ==
    [r EXCEPT !.ErrorCount = @ + 1]

\* both failure branches of createConnection
CreateFailed(r) ==
    [r EXCEPT !.State = StateError, !.ErrorCount = @ + 1]

\* a success branch that forgets to set the state
CreateSucceededKeepsState(r, db, t) ==
    [r EXCEPT !.DB = db, !.LastPing = t, !.ErrorCount = 0]

\* the success branch of createConnection
CreateSucceeded(r, db, t) ==
    [r EXCEPT !.DB = db, !.State = StateConnected, !.LastPing = t,
              !.ErrorCount = 0]

GetConnRet(c, db, err) ==
    [NoRet EXCEPT !.op = "GetConnection", !.name = loc[c].name, !.db = db,
                  !.err = err, !.conn = loc[c].conn, !.old = loc[c].old,
                  !.oldState = loc[c].oldState, !.total0 = loc[c].total0,
                  !.t0 = loc[c].t0, !.test = loc[c].test]

\* p.mutex.Lock(); no entry; createConnection: name not in the configuration
GetConnNotFound(c) ==
    /\ pc[c] = "idle"
    /\ PoolFree
    /\ \E n \in AllNames :
         /\ connections[n] = 0
         /\ ~HasConfig(n)
         /\ \E test \in BOOLEAN :
              ev' = [NoRet EXCEPT !.by = c, !.op = "GetConnection", !.name = n,
                                  !.err = "notfound", !.msg = NotFoundErr,
                                  !.oldState = "absent",
                                  !.total0 = totalConnections, !.test = test]
    /\ UNCHANGED <<connections, ents, nextEnt, handle, poolW, poolR,
                   connMutex, cancelled, enableKeepalive, totalConnections, successfulPings,
                   failedPings, now, pc, loc, mpc, snap, cur, curUp>>

\* a GetConnection that gives p.mutex back before the I/O of the creation
GetConnAbsentUnlocked(c) ==
    /\ pc[c] = "idle"
    /\ PoolFree
    /\ nextEnt < MaxEnt
    /\ \E n \in AllNames :
         /\ connections[n] = 0
         /\ HasConfig(n)
         /\ ents' = [ents EXCEPT ![nextEnt + 1] = NewPooledConn(n, now)]
         /\ connections' = [connections EXCEPT ![n] = nextEnt + 1]
         /\ \E test \in BOOLEAN :
              BeginGet(c, n, "cc_raw", nextEnt + 1, "absent", test)
    /\ nextEnt' = nextEnt + 1
    /\ UNCHANGED <<handle, poolW, poolR, connMutex, cancelled, enableKeepalive,
                   totalConnections, successfulPings, failedPings, now, mpc,
                   snap, cur, curUp>>

\* p.mutex.Lock(); no entry; createConnection allocates the PooledConnection
\* and stores it in the pool
GetConnAbsent(c) ==
    /\ pc[c] = "idle"
    /\ PoolFree
    /\ nextEnt < MaxEnt
    /\ \E n \in AllNames :
         /\ connections[n] = 0
         /\ HasConfig(n)
         /\ ents' = [ents EXCEPT ![nextEnt + 1] = NewPooledConn(n, now)]
         /\ connections' = [connections EXCEPT ![n] = nextEnt + 1]
         /\ \E test \in BOOLEAN :
              BeginGet(c, n, "cc_raw", nextEnt + 1, "absent", test)
    /\ nextEnt' = nextEnt + 1
    /\ poolW' = c
    /\ UNCHANGED <<handle, poolR, connMutex, cancelled, enableKeepalive, totalConnections,
                   successfulPings, failedPings, now, mpc, snap, cur, curUp>>

\* p.mutex.Lock(); the entry exists: go on to conn.mutex.Lock()
GetConnLookup(c) ==
    /\ pc[c] = "idle"
    /\ PoolFree
    /\ nextEnt < MaxEnt
    /\ \E n \in AllNames :
         /\ connections[n] # 0
         /\ \E test \in BOOLEAN :
              BeginGet(c, n, "gc_conn", connections[n], "", test)
    /\ poolW' = c
    /\ UNCHANGED <<connections, ents, nextEnt, handle, poolR, connMutex,
                   cancelled, enableKeepalive, totalConnections, successfulPings, failedPings,
                   now, mpc, snap, cur, curUp>>

\* a fast path that writes lastUsed without taking the entry's lock
GCFastUnlocked(c) ==
    /\ pc[c] = "gc_conn"
    /\ IsHealthy(ents[loc[c].conn])
    /\ ents' = [ents EXCEPT ![loc[c].conn].LastUsed = now]
    /\ GetConnReturn(c, [GetConnRet(c, ents[loc[c].conn].DB, "nil")
                           EXCEPT !.old = loc[c].conn,
                                  !.oldState = ents[loc[c].conn].State])
    /\ poolW' = NoThread
    /\ UNCHANGED <<connections, nextEnt, handle, poolR, connMutex, cancelled, enableKeepalive,
                   totalConnections, successfulPings, failedPings, now, mpc,
                   snap, cur, curUp>>

\* conn.mutex.Lock(); LastUsed = now; healthy: return conn.DB
GCFast(c) ==
    /\ pc[c] = "gc_conn"
    /\ connMutex[loc[c].conn] = NoThread
    /\ IsHealthy(ents[loc[c].conn])
    /\ ents' = [ents EXCEPT ![loc[c].conn].LastUsed = now]
    /\ GetConnReturn(c, [GetConnRet(c, ents[loc[c].conn].DB, "nil")
                           EXCEPT !.old = loc[c].conn,
                                  !.oldState = ents[loc[c].conn].State])
    /\ poolW' = NoThread
    /\ UNCHANGED <<connections, nextEnt, handle, poolR, connMutex, cancelled, enableKeepalive,
                   totalConnections, successfulPings, failedPings, now, mpc,
                   snap, cur, curUp>>

\* conn.mutex.Lock(); LastUsed = now; not healthy: conn.mutex.Unlock();
\* createConnection allocates a new PooledConnection and stores it in the pool
GCRecreate(c) ==
    /\ pc[c] = "gc_conn"
    /\ connMutex[loc[c].conn] = NoThread
    /\ ~IsHealthy(ents[loc[c].conn])
    /\ nextEnt < MaxEnt
    /\ ents' = [ents EXCEPT ![loc[c].conn].LastUsed = now,
                            ![nextEnt + 1] = NewPooledConn(loc[c].name, now)]
    /\ connections' = [connections EXCEPT ![loc[c].name] = nextEnt + 1]
    /\ nextEnt' = nextEnt + 1
    /\ pc' = [pc EXCEPT ![c] = "cc_raw"]
    /\ loc' = [loc EXCEPT ![c].conn = nextEnt + 1, ![c].old = loc[c].conn,
                          ![c].oldState = ents[loc[c].conn].State]
    /\ ev' = NoRet
    /\ UNCHANGED <<handle, poolW, poolR, connMutex, cancelled, enableKeepalive,
                   totalConnections, successfulPings, failedPings, now, mpc,
                   snap, cur, curUp>>

\* p.manager.createRawConnection fails: credentials or sql.Open; the entry
\* is marked under its lock
CCRawFail(c) ==
    /\ pc[c] = "cc_raw"
    /\ connMutex[loc[c].conn] = NoThread
    /\ \E err \in {"cred", "open"} :
         Return(c, [GetConnRet(c, 0, err) EXCEPT !.msg = RawConnErr(err)])
    /\ ents' = [ents EXCEPT ![loc[c].conn] = CreateFailed(@)]
    /\ poolW' = NoThread
    /\ UNCHANGED <<connections, nextEnt, handle, poolR, connMutex, cancelled, enableKeepalive,
                   totalConnections, successfulPings, failedPings, now, mpc,
                   snap, cur, curUp>>

\* p.manager.createRawConnection returns an open *sql.DB
CCRawOk(c) ==
    /\ pc[c] = "cc_raw"
    /\ handle' = [handle EXCEPT ![loc[c].conn] = "open"]
    /\ pc' = [pc EXCEPT ![c] = "cc_ping"]
    /\ ev' = NoRet
    /\ UNCHANGED <<connections, ents, nextEnt, poolW, poolR, connMutex,
                   cancelled, enableKeepalive, totalConnections, successfulPings, failedPings,
                   now, loc, mpc, snap, cur, curUp>>

\* db.Ping() fails: db.Close(), entry to Error under its lock
CCPingFail(c) ==
    /\ pc[c] = "cc_ping"
    /\ connMutex[loc[c].conn] = NoThread
    /\ handle' = [handle EXCEPT ![loc[c].conn] = "closed"]
    /\ ents' = [ents EXCEPT ![loc[c].conn] = CreateFailed(@)]
    /\ Return(c, [GetConnRet(c, 0, "ping") EXCEPT !.msg = PingErr])
    /\ poolW' = NoThread
    /\ UNCHANGED <<connections, nextEnt, poolR, connMutex, cancelled, enableKeepalive,
                   totalConnections, successfulPings, failedPings, now, mpc,
                   snap, cur, curUp>>

\* db.Ping() succeeds: entry to Connected under its lock,
\* p.totalConnections++
CCPingOk(c) ==
    /\ pc[c] = "cc_ping"
    /\ connMutex[loc[c].conn] = NoThread
    /\ ents' = [ents EXCEPT ![loc[c].conn] = CreateSucceeded(@, loc[c].conn, now)]
    /\ totalConnections' = totalConnections + 1
    /\ GetConnReturn(c, GetConnRet(c, loc[c].conn, "nil"))
    /\ poolW' = NoThread
    /\ UNCHANGED <<connections, nextEnt, handle, poolR, connMutex, cancelled, enableKeepalive,
                   successfulPings, failedPings, now, mpc, snap, cur, curUp>>

\* Manager.TestConnection after a successful GetConnection: db.Ping() on the
\* handle it got, with no pool lock held; a closed *sql.DB answers with an
\* error, an open one with the backend's answer
TCPing(c) ==
    /\ pc[c] = "tc_ping"
    /\ \E ok \in IF handle[loc[c].conn] = "open" THEN BOOLEAN ELSE {FALSE} :
         Return(c, [NoRet EXCEPT !.op = "TestConnection", !.name = loc[c].name,
                                 !.db = loc[c].conn, !.test = TRUE,
                                 !.err = IF ok THEN "nil" ELSE "probe",
                                 !.msg = IF ok THEN <<>> ELSE DriverErr])
    /\ UNCHANGED <<connections, ents, nextEnt, handle, poolW, poolR, connMutex,
                   cancelled, enableKeepalive, totalConnections,
                   successfulPings, failedPings, now, mpc, snap, cur, curUp>>

(***************************************************************************)
(* GetConnectionStatus, GetAllConnectionStatus, GetPoolMetrics             *)
(***************************************************************************)
\* the ConnectionStatus built from an entry (the derived durations are
\* functions of these fields and of the time of the snapshot)
StatusOf(r) ==
    [Name |-> r.Name, State |-> r.State, LastUsed |-> r.LastUsed,
     LastPing |-> r.LastPing, ErrorCount |-> r.ErrorCount,
     CreatedAt |-> r.CreatedAt]

\* a synthesized status that reports the name as connecting
AbsentStatusConnecting(n) ==
    [Name |-> n, State |-> StateConnecting, LastUsed |-> 0,
     LastPing |-> 0, ErrorCount |-> 0, CreatedAt |-> 0]

\* the ConnectionStatus synthesized for a name without entry
AbsentStatus(n) ==
    [Name |-> n, State |-> StateDisconnected, LastUsed |-> 0,
     LastPing |-> 0, ErrorCount |-> 0, CreatedAt |-> 0]

\* p.mutex.RLock(); name absent: return the synthesized status
GetStatusAbsent(c) ==
    /\ pc[c] = "idle"
    /\ poolW = NoThread
    /\ \E n \in AllNames :
         /\ connections[n] = 0
         /\ ev' = [NoRet EXCEPT !.by = c, !.op = "GetConnectionStatus",
                                !.name = n, !.err = "nil",
                                !.status = {AbsentStatus(n)}]
    /\ UNCHANGED <<connections, ents, nextEnt, handle, poolW, poolR,
                   connMutex, cancelled, enableKeepalive, totalConnections, successfulPings,
                   failedPings, now, pc, loc, mpc, snap, cur, curUp>>

\* p.mutex.RLock(); name present: go on to conn.mutex.RLock()
GetStatusLookup(c) ==
    /\ pc[c] = "idle"
    /\ poolW = NoThread
    /\ \E n \in AllNames :
         /\ connections[n] # 0
         /\ Begin(c, "GetConnectionStatus", n, "gs_conn", connections[n], "")
    /\ poolR' = poolR \cup {c}
    /\ UNCHANGED <<connections, ents, nextEnt, handle, poolW, connMutex,
                   cancelled, enableKeepalive, totalConnections, successfulPings, failedPings,
                   now, mpc, snap, cur, curUp>>

\* conn.mutex.RLock(); return the entry's status; both read locks released
GSRead(c) ==
    /\ pc[c] = "gs_conn"
    /\ connMutex[loc[c].conn] = NoThread
    /\ poolR' = poolR \ {c}
    /\ Return(c, [NoRet EXCEPT !.op = "GetConnectionStatus", !.name = loc[c].name,
                               !.err = "nil", !.conn = loc[c].conn,
                               !.status = {StatusOf(ents[loc[c].conn])}])
    /\ UNCHANGED <<connections, ents, nextEnt, handle, poolW, connMutex,
                   cancelled, enableKeepalive, totalConnections, successfulPings, failedPings,
                   now, mpc, snap, cur, curUp>>

\* a PoolMetrics that reports the cumulative count as the active count
MetricsOfActiveFromTotal(connected, errors) ==
    [TotalConnections |-> totalConnections,
     ActiveConnections |-> totalConnections,
     ConnectedCount |-> connected, ErrorCount |-> errors,
     SuccessfulPings |-> successfulPings, FailedPings |-> failedPings]

\* the PoolMetrics built by GetPoolMetrics' return statement
MetricsOf(connected, errors) ==
    [TotalConnections |-> totalConnections,
     ActiveConnections |-> Cardinality(Registered),
     ConnectedCount |-> connected, ErrorCount |-> errors,
     SuccessfulPings |-> successfulPings, FailedPings |-> failedPings]

\* what an iterating reader returns once its range loop is over
IterRet(op, statuses, connected, errors) ==
    IF op = "GetPoolMetrics"
      THEN [NoRet EXCEPT !.op = op, !.err = "nil",
                         !.status = {MetricsOf(connected, errors)}]
      ELSE [NoRet EXCEPT !.op = op, !.err = "nil", !.status = statuses]

\* p.mutex.RLock() of GetAllConnectionStatus / GetPoolMetrics on an empty pool
IterEmpty(c, op) ==
    /\ pc[c] = "idle"
    /\ poolW = NoThread
    /\ Registered = {}
    /\ ev' = [IterRet(op, {}, 0, 0) EXCEPT !.by = c, !.t0 = now,
                                           !.quiet = MonitorQuiet]
    /\ UNCHANGED <<connections, ents, nextEnt, handle, poolW, poolR,
                   connMutex, cancelled, enableKeepalive, totalConnections, successfulPings,
                   failedPings, now, pc, loc, mpc, snap, cur, curUp>>

\* p.mutex.RLock() of GetAllConnectionStatus / GetPoolMetrics; the range loop
\* over the map starts at an arbitrary key
IterStart(c, op) ==
    /\ pc[c] = "idle"
    /\ poolW = NoThread
    /\ \E n \in Registered :
         /\ pc' = [pc EXCEPT ![c] = "it_conn"]
         /\ loc' = [loc EXCEPT ![c] = [NoLoc EXCEPT !.op = op, !.todo = Registered,
                                                    !.cur = n, !.t0 = now,
                                                    !.quiet = MonitorQuiet]]
    /\ poolR' = poolR \cup {c}
    /\ ev' = NoRet
    /\ UNCHANGED <<connections, ents, nextEnt, handle, poolW, connMutex,
                   cancelled, enableKeepalive, totalConnections, successfulPings, failedPings,
                   now, mpc, snap, cur, curUp>>

GetAllEmpty(c) == IterEmpty(c, "GetAllConnectionStatus")
GetAllStart(c) == IterStart(c, "GetAllConnectionStatus")
GetMetricsEmpty(c) == IterEmpty(c, "GetPoolMetrics")
GetMetricsStart(c) == IterStart(c, "GetPoolMetrics")

\* one iteration: conn.mutex.RLock(); read the entry; conn.mutex.RUnlock();
\* after the last entry the method returns and releases p.mutex
IterRead(c) ==
    /\ pc[c] = "it_conn"
    /\ LET n == loc[c].cur
           r == ents[connections[n]]
           rest == loc[c].todo \ {n}
           connected == loc[c].connected + (IF r.State = StateConnected THEN 1 ELSE 0)
           errors == loc[c].errors + (IF r.State = StateError THEN 1 ELSE 0)
           statuses == IF loc[c].op = "GetAllConnectionStatus"
                         THEN loc[c].acc \cup {StatusOf(r)} ELSE {}
       IN
         /\ connMutex[connections[n]] = NoThread
         /\ IF rest = {}
              THEN /\ Return(c, [IterRet(loc[c].op, statuses, connected, errors)
                                   EXCEPT !.t0 = loc[c].t0,
                                          !.quiet = loc[c].quiet])
                   /\ poolR' = poolR \ {c}
              ELSE /\ \E m \in rest :
                        loc' = [loc EXCEPT ![c].todo = rest, ![c].cur = m,
                                           ![c].connected = connected,
                                           ![c].errors = errors,
                                           ![c].acc = statuses]
                   /\ ev' = NoRet /\ UNCHANGED <<pc, poolR>>
    /\ UNCHANGED <<connections, ents, nextEnt, handle, poolW, connMutex,
                   cancelled, enableKeepalive, totalConnections, successfulPings, failedPings,
                   now, mpc, snap, cur, curUp>>

(***************************************************************************)
(* Close                                                                   *)
(***************************************************************************)
\* a Close that closes the handles of Connected entries only
CloseDBIfConnected(h, r) ==
    IF r.DB # 0 /\ r.State = StateConnected
      THEN [h EXCEPT ![r.DB] = "closed"] ELSE h

\* the handle life cycle after conn.DB.Close() on entry record r
CloseDB(h, r) == IF r.DB # 0 THEN [h EXCEPT ![r.DB] = "closed"] ELSE h

\* a Close that keeps the old map
NewMapKeepsEntries == connections

\* make(map[string]*PooledConnection)
NewMap == [n \in AllNames |-> 0]

\* what Close returns; again: the context was cancelled before this call,
\* errors: the close errors this call has logged
CloseRet(c, errors) ==
    [NoRet EXCEPT !.op = "Close", !.err = "nil", !.again = loc[c].again,
                  !.errors = errors]

\* Close: p.cancel(), then on to p.mutex.Lock()
CloseCancel(c) ==
    /\ pc[c] = "idle"
    /\ cancelled' = TRUE
    /\ pc' = [pc EXCEPT ![c] = "cl_lock"]
    /\ loc' = [loc EXCEPT ![c] = [NoLoc EXCEPT !.op = "Close",
                                               !.again = cancelled]]
    /\ ev' = NoRet
    /\ UNCHANGED <<connections, ents, nextEnt, handle, poolW, poolR, connMutex,
                   enableKeepalive,
                   totalConnections, successfulPings, failedPings, now,
                   mpc, snap, cur, curUp>>

\* p.mutex.Lock(); the range loop starts at an arbitrary key; an empty
\* registry is replaced by a new map at once
CLLock(c) ==
    /\ pc[c] = "cl_lock"
    /\ PoolFree
    /\ IF Registered = {}
         THEN /\ Return(c, CloseRet(c, 0))
              /\ UNCHANGED poolW
         ELSE /\ poolW' = c
              /\ pc' = [pc EXCEPT ![c] = "cl_conn"]
              /\ \E n \in Registered :
                   loc' = [loc EXCEPT ![c].todo = Registered, ![c].cur = n]
              /\ ev' = NoRet
    /\ UNCHANGED <<connections, ents, nextEnt, handle, poolR, connMutex,
                   cancelled, enableKeepalive, totalConnections, successfulPings, failedPings, now,
                   curUp, mpc, snap, cur>>

\* one iteration: conn.mutex.Lock(); close conn.DB if not nil, the error
\* of conn.DB.Close() is logged; Unlock(); after the last entry:
\* p.connections = make(map), return nil
CLEntry(c) ==
    /\ pc[c] = "cl_conn"
    /\ LET n == loc[c].cur
           rest == loc[c].todo \ {n}
       IN
         /\ connMutex[connections[n]] = NoThread
         /\ handle' = CloseDB(handle, ents[connections[n]])
         /\ \E failed \in IF ents[connections[n]].DB # 0 THEN BOOLEAN ELSE {FALSE} :
              LET errors == loc[c].errors + (IF failed THEN 1 ELSE 0) IN
                IF rest = {}
                  THEN /\ connections' = NewMap
                       /\ Return(c, CloseRet(c, errors))
                       /\ poolW' = NoThread
                  ELSE /\ \E m \in rest :
                            loc' = [loc EXCEPT ![c].todo = rest, ![c].cur = m,
                                               ![c].errors = errors]
                       /\ ev' = NoRet /\ UNCHANGED <<pc, poolW, connections>>
    /\ UNCHANGED <<ents, nextEnt, poolR, connMutex,
                   cancelled, enableKeepalive, totalConnections, successfulPings, failedPings, now,
                   curUp, mpc, snap, cur>>

(***************************************************************************)
(* backgroundMonitor, healthCheck, checkConnection, cleanupIdleConnections *)
(***************************************************************************)
\* select: p.ctx.Done()
MonExit ==
    /\ mpc = "wait"
    /\ cancelled
    /\ mpc' = "exit"
    /\ ev' = NoRet
    /\ UNCHANGED <<connections, ents, nextEnt, handle, poolW, poolR, connMutex,
                   cancelled, enableKeepalive, totalConnections, successfulPings, failedPings, now,
                   curUp, pc, loc, snap, cur>>

\* the monitor moves on to the next entry of its snapshot, in arbitrary
\* order, or to cleanupIdleConnections when none is left
MonNext(rest) ==
    /\ snap' = rest
    /\ IF rest = {}
         THEN cur' = 0 /\ curUp' = TRUE /\ mpc' = "cleanup"
         ELSE (\E e \in rest : cur' = e) /\ curUp' \in BOOLEAN /\ mpc' = "ck_lock"

\* select: the ticker fired; healthCheck copies the entries out under
\* p.mutex.RLock()
MonTick ==
    /\ mpc = "wait"
    /\ now < MaxTime
    /\ poolW = NoThread
    /\ now' = now + 1
    /\ MonNext({connections[n] : n \in Registered})
    /\ ev' = NoRet
    /\ UNCHANGED <<connections, ents, nextEnt, handle, poolW, poolR, connMutex,
                   cancelled, enableKeepalive, totalConnections, successfulPings, failedPings,
                   pc, loc>>

\* time passes in a pool without monitor
TimePasses ==
    /\ mpc = "off"
    /\ now < MaxTime
    /\ now' = now + 1
    /\ ev' = NoRet
    /\ UNCHANGED <<connections, ents, nextEnt, handle, poolW, poolR, connMutex,
                   cancelled, enableKeepalive, totalConnections,
                   successfulPings, failedPings, pc, loc, mpc, snap, cur, curUp>>

\* a checkConnection without early return
SkipCheckNever(r) == FALSE

\* the early return of checkConnection
SkipCheck(r) == r.DB = 0 \/ r.State = StateError

\* an early return that counts the skipped entry as a failed ping
CKSkipCounted ==
    /\ mpc = "ck_lock"
    /\ connMutex[cur] = NoThread
    /\ SkipCheck(ents[cur])
    /\ failedPings' = failedPings + 1
    /\ MonNext(snap \ {cur})
    /\ ev' = NoRet
    /\ UNCHANGED <<connections, ents, nextEnt, handle, poolW, poolR, connMutex,
                   cancelled, enableKeepalive, totalConnections, successfulPings, now,
                   pc, loc>>

\* checkConnection: conn.mutex.Lock(), early return
CKSkip ==
    /\ mpc = "ck_lock"
    /\ connMutex[cur] = NoThread
    /\ SkipCheck(ents[cur])
    /\ MonNext(snap \ {cur})
    /\ ev' = NoRet
    /\ UNCHANGED <<connections, ents, nextEnt, handle, poolW, poolR, connMutex,
                   cancelled, enableKeepalive, totalConnections, successfulPings, failedPings, now,
                   pc, loc>>

\* checkConnection: conn.mutex.Lock(), PingContext sent
CKLock ==
    /\ mpc = "ck_lock"
    /\ connMutex[cur] = NoThread
    /\ ~SkipCheck(ents[cur])
    /\ connMutex' = [connMutex EXCEPT ![cur] = Mon]
    /\ mpc' = "ck_ping"
    /\ ev' = NoRet
    /\ UNCHANGED <<connections, ents, nextEnt, handle, poolW, poolR,
                   cancelled, enableKeepalive, totalConnections, successfulPings, failedPings, now,
                   curUp, pc, loc, snap, cur>>

\* a failed ping that counts twice
PingFailedCountsTwice(r) ==
    LET r1 == [r EXCEPT !.State = StateError, !.ErrorCount = @ + 2] IN
      IF r1.ErrorCount >= MaxErrorCount
        THEN [r1 EXCEPT !.DB = 0, !.State = StateDisconnected]
        ELSE r1

\* a failed ping that drops the handle at the first failure
PingFailedDisconnects(r) ==
    [r EXCEPT !.State = StateDisconnected, !.ErrorCount = @ + 1, !.DB = 0]

\* the entry after a failed ping
PingFailed(r) ==
    LET r1 == [r EXCEPT !.State = StateError, !.ErrorCount = @ + 1] IN
      IF r1.ErrorCount >= MaxErrorCount
        THEN [r1 EXCEPT !.DB = 0, !.State = StateDisconnected]
        ELSE r1

\* a successful ping that also counts as a use
PingSucceededTouches(r, t) ==
    [r EXCEPT !.LastPing = t, !.LastUsed = t,
              !.State = IF @ = StateError THEN StateConnected ELSE @,
              !.ErrorCount = 0]

\* the entry after a successful ping
PingSucceeded(r, t) ==
    [r EXCEPT !.LastPing = t,
              !.State = IF @ = StateError THEN StateConnected ELSE @,
              !.ErrorCount = 0]

\* PingContext can return nil: the backend answers and the *sql.DB has not
\* been closed
PingCanSucceed == curUp /\ handle[ents[cur].DB] = "open"

\* a failure branch that does not count the failed ping
CKPingFailUncounted ==
    /\ mpc = "ck_ping"
    /\ ~PingCanSucceed
    /\ ents' = [ents EXCEPT ![cur] = PingFailed(@)]
    /\ handle' = IF PingFailed(ents[cur]).DB = 0
                   THEN CloseDB(handle, ents[cur]) ELSE handle
    /\ connMutex' = [connMutex EXCEPT ![cur] = NoThread]
    /\ MonNext(snap \ {cur})
    /\ ev' = NoRet
    /\ UNCHANGED <<connections, nextEnt, poolW, poolR, cancelled,
                   enableKeepalive, totalConnections, successfulPings,
                   failedPings, now, pc, loc>>

\* PingContext returned an error (or timed out)
CKPingFail ==
    /\ mpc = "ck_ping"
    /\ ~PingCanSucceed
    /\ ents' = [ents EXCEPT ![cur] = PingFailed(@)]
    /\ failedPings' = failedPings + 1
    /\ handle' = IF PingFailed(ents[cur]).DB = 0
                   THEN CloseDB(handle, ents[cur]) ELSE handle
    /\ connMutex' = [connMutex EXCEPT ![cur] = NoThread]
    /\ MonNext(snap \ {cur})
    /\ ev' = NoRet
    /\ UNCHANGED <<connections, nextEnt, poolW, poolR,
                   cancelled, enableKeepalive, totalConnections, successfulPings, now,
                   pc, loc>>

\* a successful ping that returns without unlocking the entry
CKPingOkKeepsLock ==
    /\ mpc = "ck_ping"
    /\ PingCanSucceed
    /\ ents' = [ents EXCEPT ![cur] = PingSucceeded(@, now)]
    /\ successfulPings' = successfulPings + 1
    /\ MonNext(snap \ {cur})
    /\ ev' = NoRet
    /\ UNCHANGED <<connections, nextEnt, handle, poolW, poolR, connMutex,
                   cancelled, enableKeepalive, totalConnections, failedPings, now,
                   pc, loc>>

\* PingContext returned nil
CKPingOk ==
    /\ mpc = "ck_ping"
    /\ PingCanSucceed
    /\ ents' = [ents EXCEPT ![cur] = PingSucceeded(@, now)]
    /\ successfulPings' = successfulPings + 1
    /\ connMutex' = [connMutex EXCEPT ![cur] = NoThread]
    /\ MonNext(snap \ {cur})
    /\ ev' = NoRet
    /\ UNCHANGED <<connections, nextEnt, handle, poolW, poolR,
                   cancelled, enableKeepalive, totalConnections, failedPings, now,
                   pc, loc>>

\* a shouldRemove that is never true
ShouldRemoveNever(r, t) == FALSE

\* a shouldRemove that forgets the state
ShouldRemoveAnyState(r, t) == t - r.LastUsed > MaxIdleTime

\* shouldRemove of cleanupIdleConnections, at time t
ShouldRemove(r, t) == t - r.LastUsed > MaxIdleTime /\ r.State # StateConnected

\* the names cleanupIdleConnections puts in toRemove
ToRemove == {n \in Registered : ShouldRemove(ents[connections[n]], now)}

\* cleanupIdleConnections: under p.mutex.Lock() no caller holds an entry
\* lock and the monitor itself holds none, so the two loops never block
Cleanup ==
    /\ mpc = "cleanup"
    /\ PoolFree
    /\ handle' = [e \in EntIds |->
                    IF \E n \in ToRemove : ents[connections[n]].DB = e
                      THEN "closed" ELSE handle[e]]
    /\ connections' = [n \in AllNames |->
                         IF n \in ToRemove THEN 0 ELSE connections[n]]
    /\ mpc' = "wait"
    /\ ev' = NoRet
    /\ UNCHANGED <<ents, nextEnt, poolW, poolR, connMutex,
                   cancelled, enableKeepalive, totalConnections, successfulPings, failedPings, now,
                   curUp, pc, loc, snap, cur>>

CallerStep(c) ==
    \/ GetConnNotFound(c)
    \/ GetConnAbsent(c)
    \/ GetConnLookup(c)
    \/ GCFast(c)
    \/ GCRecreate(c)
    \/ CCRawFail(c)
    \/ CCRawOk(c)
    \/ CCPingFail(c)
    \/ CCPingOk(c)
    \/ TCPing(c)
    \/ GetStatusAbsent(c)
    \/ GetStatusLookup(c)
    \/ GSRead(c)
    \/ GetAllEmpty(c)
    \/ GetAllStart(c)
    \/ GetMetricsEmpty(c)
    \/ GetMetricsStart(c)
    \/ IterRead(c)
    \/ CloseCancel(c)
    \/ CLLock(c)
    \/ CLEntry(c)

MonitorStep ==
    \/ MonTick
    \/ MonExit
    \/ CKSkip
    \/ CKLock
    \/ CKPingFail
    \/ CKPingOk
    \/ Cleanup

\* calls come one at a time, next to the monitor
Next ==
    \/ CallerStep("c1")
    \/ MonitorStep
    \/ TimePasses

Spec == Init /\ [][Next]_vars

\* a call that has started goes on: its I/O returns, and a lock it waits
\* for is granted when it is free again and again (sync.Mutex and
\* sync.RWMutex hand the lock to a starving waiter)
CallerProgress(c) == pc[c] # "idle" /\ CallerStep(c)

\* the monitor goroutine is scheduled, the ticker fires, the locks it waits
\* for are granted, and its select, which picks at random among the ready
\* cases, does not pass over p.ctx.Done() for ever
Fairness ==
    /\ SF_vars(MonitorStep)
    /\ SF_vars(MonExit)
    /\ SF_vars(CallerProgress("c1"))

SpecLive == Init /\ [][Next]_vars /\ Fairness

\* two callers run their calls concurrently, next to the monitor: the
\* first calls any method, the second the writers
\* the calls of the second caller: GetConnection, TestConnection and Close,
\* the methods that take p.mutex for writing
WriterStep(c) ==
    \/ GetConnNotFound(c)
    \/ GetConnAbsent(c)
    \/ GetConnLookup(c)
    \/ GCFast(c)
    \/ GCRecreate(c)
    \/ CCRawFail(c)
    \/ CCRawOk(c)
    \/ CCPingFail(c)
    \/ CCPingOk(c)
    \/ TCPing(c)
    \/ CloseCancel(c)
    \/ CLLock(c)
    \/ CLEntry(c)

NextConc ==
    \/ CallerStep("c1")
    \/ WriterStep("c2")
    \/ MonitorStep
    \/ TimePasses

SpecConc == Init /\ [][NextConc]_vars

(***************************************************************************)
(* Properties                                                              *)
(***************************************************************************)
\* the handles of name n that are opened and not closed
LiveHandles(n) == {e \in EntIds : ents[e].Name = n /\ handle[e] = "open"}

\* the monitor finishes checkConnection on entry cur in this step
CheckDone == cur \in snap /\ snap' = snap \ {cur}

\* caller c waits for an entry lock that the monitor holds for its ping
WaitsOnPing(c) ==
    \/ pc[c] \in {"gc_conn", "gs_conn"} /\ connMutex[loc[c].conn] = Mon
    \/ pc[c] \in {"it_conn", "cl_conn"} /\ connMutex[connections[loc[c].cur]] = Mon

\* caller c holds p.mutex
HoldsPool(c) == poolW = c \/ c \in poolR

\* C1: every connection name has at most one raw handle that is opened and
\* not yet closed, in every reachable state
C1_OneLiveHandlePerName ==
    \A n \in Configured : Cardinality(LiveHandles(n)) <= 1

\* C2: whenever an entry stops being the registry's entry for its name, its
\* raw handle, if it has one, has been closed
C2_NoOrphanedHandles ==
    [][\A n \in AllNames :
         (/\ connections[n] # 0
          /\ connections'[n] # connections[n]
          /\ ents[connections[n]].DB # 0)
         => handle'[ents[connections[n]].DB] = "closed"]_vars

\* C3: the health check of an entry in Error state with a live handle pings
\* it, and a successful ping takes it back to Connected with errorCount 0
\* and lastPing updated
C3_SelfHealing ==
    [][(/\ CheckDone
        /\ ents[cur].State = StateError
        /\ ents[cur].DB # 0
        /\ handle[ents[cur].DB] = "open"
        /\ curUp)
       => (/\ ents'[cur].State = StateConnected
           /\ ents'[cur].ErrorCount = 0
           /\ ents'[cur].LastPing = now)]_vars

\* C4: every health check of an entry with a handle whose ping fails adds one
\* to errorCount; below the threshold the entry is in Error and keeps its
\* handle, at the threshold the handle is closed and nil and the entry is
\* Disconnected; no failing tick is skipped
C4_ThresholdClosure ==
    [][(/\ CheckDone
        /\ ents[cur].DB # 0
        /\ ents[cur].State \in {StateConnected, StateError}
        /\ ~curUp)
       => LET k == ents[cur].ErrorCount + 1 IN
            /\ ents'[cur].ErrorCount = k
            /\ IF k >= MaxErrorCount
                 THEN /\ ents'[cur].DB = 0
                      /\ ents'[cur].State = StateDisconnected
                      /\ handle'[ents[cur].DB] = "closed"
                 ELSE /\ ents'[cur].DB = ents[cur].DB
                      /\ ents'[cur].State = StateError]_vars

\* C5: a reap pass keeps every Connected entry, removes every other entry
\* idle for more than max idle time, and keeps every other entry idle for at
\* most max idle time
C5_ReapExclusion ==
    [][(mpc = "cleanup" /\ mpc' = "wait")
       => \A n \in Registered :
            LET r == ents[connections[n]] IN
              /\ r.State = StateConnected => connections'[n] = connections[n]
              /\ (r.State # StateConnected /\ now - r.LastUsed > MaxIdleTime)
                   => connections'[n] = 0
              /\ (r.State # StateConnected /\ now - r.LastUsed <= MaxIdleTime)
                   => connections'[n] = connections[n]]_vars

\* a reap pass has just kept an old Connected entry and removed another one
C5_Witness ==
    /\ ~cancelled
    /\ mpc = "wait"
    /\ \E e1, e2 \in EntIds :
         /\ ents[e1].Name \in Configured
         /\ connections[ents[e1].Name] = e1
         /\ ents[e1].State = StateConnected
         /\ now - ents[e1].LastUsed > MaxIdleTime
         /\ ents[e2].Name \in Configured
         /\ connections[ents[e2].Name] = 0
         /\ ents[e2].State # StateConnected

\* C6: while the monitor holds an entry's lock for a ping, no caller that
\* holds the pool-wide lock waits for that ping, so a call on another name
\* can always take the pool-wide lock
C6_HealthCheckBlocksNoOtherName ==
    \A c \in Callers :
      ~(mpc = "ck_ping" /\ HoldsPool(c) /\ WaitsOnPing(c)
        /\ \E d \in Callers \ {c} : pc[d] = "idle"
        /\ \E n \in Configured : n # ents[cur].Name)

\* C7: a creation that is in its I/O does not hold the pool-wide lock
C7_NoPoolLockDuringIO ==
    \A c \in Callers : pc[c] \in {"cc_raw", "cc_ping"} => poolW = NoThread

\* C8: no status or metrics call waits for an entry lock that the monitor
\* holds for an in-flight ping
C8_SnapshotsDoNotWaitForPing ==
    \A c \in Callers :
      ~(mpc = "ck_ping" /\ pc[c] \in {"gs_conn", "it_conn"} /\ WaitsOnPing(c))

\* C9: a GetConnection that found the name's entry not Connected returns
\* either this call's error or the handle this call has opened and pinged,
\* never the old entry's handle
C9_NoStaleSuccess ==
    (ev.op = "GetConnection" /\ ev.old # 0 /\ ev.oldState # StateConnected)
    => \/ ev.err \in {"cred", "open", "ping"} /\ ev.db = 0
       \/ /\ ev.err = "nil"
          /\ ev.db # 0
          /\ ev.db = ev.conn
          /\ ev.conn # ev.old
          /\ ev.db # ents[ev.old].DB
          /\ handle[ev.db] = "open"

\* a GetConnection that found an Error entry still holding its handle has
\* returned a new handle
C9_Witness ==
    /\ ev.op = "GetConnection"
    /\ ev.old # 0
    /\ ev.oldState = StateError
    /\ ents[ev.old].DB # 0
    /\ ev.err = "nil"
    /\ ev.db # 0

\* C10: when GetConnection fails at credential resolution, open or initial
\* ping, it returns an error, the registry holds an entry for the name in
\* Error state with a nil handle, and totalConnections is what it was
C10_FailedCreationTracked ==
    (ev.op = "GetConnection" /\ ev.err \in {"cred", "open", "ping"})
    => /\ ev.db = 0
       /\ connections[ev.name] # 0
       /\ ents[connections[ev.name]].State = StateError
       /\ ents[connections[ev.name]].DB = 0
       /\ totalConnections = ev.total0

\* a GetConnection has just failed at its initial ping, after an earlier
\* creation had succeeded
C10_Witness ==
    /\ ev.op = "GetConnection"
    /\ ev.err = "ping"
    /\ totalConnections > 0
    /\ connections[ev.name] # 0

\* the return in ev is that of a GetConnection whose creation succeeded
CreatedOk(r) == r.op = "GetConnection" /\ r.err = "nil" /\ r.conn # r.old

\* C11: a successful creation leaves the name's entry Connected with
\* errorCount 0 and the returned handle stored, and adds exactly one to
\* totalConnections; no other step changes totalConnections, so it never
\* decreases and counts the creations that succeeded
C11_CreationCounted ==
    /\ [](CreatedOk(ev)
           => /\ connections[ev.name] = ev.conn
              /\ ents[ev.conn].State = StateConnected
              /\ ents[ev.conn].ErrorCount = 0
              /\ ev.db # 0
              /\ ents[ev.conn].DB = ev.db
              /\ totalConnections = ev.total0 + 1)
    /\ [][totalConnections' =
            totalConnections + (IF CreatedOk(ev') THEN 1 ELSE 0)]_vars

\* a second creation has succeeded, replacing an entry that was in Error
C11_Witness ==
    /\ CreatedOk(ev)
    /\ ev.old # 0
    /\ ev.oldState = StateError
    /\ totalConnections = 2

\* C12: GetConnection for a name without configuration entry returns a
\* not-found error and changes neither the registry, nor any entry or
\* handle, nor any pool counter
C12_NotFoundCreatesNothing ==
    [][(ev'.op = "GetConnection" /\ ev'.name \notin Configured)
       => /\ ev'.err = "notfound"
          /\ ev'.db = 0
          /\ connections' = connections
          /\ ents' = ents
          /\ nextEnt' = nextEnt
          /\ handle' = handle
          /\ totalConnections' = totalConnections
          /\ successfulPings' = successfulPings
          /\ failedPings' = failedPings]_vars

\* a GetConnection for an unconfigured name has returned not-found from a
\* pool that tracks an entry and has counted a creation and a ping
C12_Witness ==
    /\ ev.op = "GetConnection"
    /\ ev.name \notin Configured
    /\ ev.err = "notfound"
    /\ Registered # {}
    /\ totalConnections > 0
    /\ successfulPings + failedPings > 0

\* what a caller can tell from an error value
IsCredFailure(m) == m # <<>> /\ Head(m) = "failed to get credentials"
IsConnFailure(m) ==
    /\ m # <<>>
    /\ Head(m) \in {"failed to open database connection",
                     "failed to ping database"}
Carries(m, e) == \E k \in 0..Len(m) : SubSeq(m, k + 1, Len(m)) = e

\* C13: when the credential provider fails, the error GetConnection returns
\* is marked as a credential failure, wraps the provider's own error and is
\* not an open or ping failure; when open or ping fails, the error is marked
\* as such and is not a credential failure
C13_CredentialVsConnectivity ==
    ev.op = "GetConnection"
    => /\ ev.err = "cred"
            => /\ IsCredFailure(ev.msg)
               /\ Carries(ev.msg, ProviderErr)
               /\ ~IsConnFailure(ev.msg)
       /\ ev.err \in {"open", "ping"}
            => /\ IsConnFailure(ev.msg)
               /\ ~IsCredFailure(ev.msg)
               /\ ~Carries(ev.msg, ProviderErr)

\* a GetConnection that replaced an existing entry has failed at the
\* credential provider
C13_Witness ==
    /\ ev.op = "GetConnection"
    /\ ev.err = "cred"
    /\ ev.old # 0
    /\ ev.msg # <<>>

\* C14: a GetConnection that finds the entry Connected with a handle returns
\* that handle, allocates no entry, opens no handle, keeps the registry and
\* the pool counters, and changes nothing of the entry but lastUsed
C14_FastPathFrame ==
    [][\A c \in Callers :
         (/\ pc[c] = "gc_conn"
          /\ pc'[c] # "gc_conn"
          /\ ents[loc[c].conn].State = StateConnected
          /\ ents[loc[c].conn].DB # 0)
         => /\ ev'.by = c
            /\ ev'.op = "GetConnection"
            /\ ev'.err = "nil"
            /\ ev'.db = ents[loc[c].conn].DB
            /\ connections' = connections
            /\ nextEnt' = nextEnt
            /\ handle' = handle
            /\ ents' = [ents EXCEPT ![loc[c].conn].LastUsed = now]
            /\ totalConnections' = totalConnections
            /\ successfulPings' = successfulPings
            /\ failedPings' = failedPings]_vars

\* a fast-path GetConnection has returned the stored handle of an entry
\* created earlier and pinged since, and has moved lastUsed
C14_Witness ==
    /\ ev.op = "GetConnection"
    /\ ev.err = "nil"
    /\ ev.old # 0
    /\ ev.conn = ev.old
    /\ ev.db = ents[ev.old].DB
    /\ ents[ev.old].LastUsed > ents[ev.old].CreatedAt
    /\ ents[ev.old].LastPing > ents[ev.old].CreatedAt
    /\ successfulPings > 0

\* C15: GetConnectionStatus for a name without registry entry returns, without
\* error, a status with that name, state Disconnected, errorCount 0 and zero
\* timestamps, and leaves the registry and every entry as they were
C15_LookupCreatesNothing ==
    [][(ev'.op = "GetConnectionStatus" /\ connections[ev'.name] = 0)
       => /\ ev'.err = "nil"
          /\ ev'.status = {[Name |-> ev'.name, State |-> StateDisconnected,
                            LastUsed |-> 0, LastPing |-> 0, ErrorCount |-> 0,
                            CreatedAt |-> 0]}
          /\ connections' = connections
          /\ Cardinality(Registered') = Cardinality(Registered)
          /\ ents' = ents
          /\ nextEnt' = nextEnt]_vars

\* GetConnectionStatus has returned for a name without entry while the
\* registry tracks another name
C15_Witness ==
    /\ ev.op = "GetConnectionStatus"
    /\ ev.name \in Configured
    /\ connections[ev.name] = 0
    /\ ev.status # {}
    /\ Registered # {}

\* the number of registry entries in state st
CountInState(st) ==
    Cardinality({n \in Registered : ents[connections[n]].State = st})

\* C16: a GetPoolMetrics snapshot reports activeConnections equal to the
\* registry's size, connectedCount equal to the number of Connected entries
\* and errorCount equal to the number of Error entries, hence
\* connectedCount + errorCount <= activeConnections
C16_MetricsExact ==
    ev.op = "GetPoolMetrics"
    => \A m \in ev.status :
         /\ m.ActiveConnections = Cardinality(Registered)
         /\ m.ConnectedCount = CountInState(StateConnected)
         /\ m.ErrorCount = CountInState(StateError)
         /\ m.ConnectedCount + m.ErrorCount <= m.ActiveConnections

\* C16 amended: a GetPoolMetrics snapshot reports activeConnections equal to
\* the registry's size and connectedCount + errorCount <= activeConnections;
\* when no health check runs between the call and its return, connectedCount
\* and errorCount are the numbers of Connected and of Error entries
C16_MetricsQuiescent ==
    ev.op = "GetPoolMetrics"
    => \A m \in ev.status :
         /\ m.ActiveConnections = Cardinality(Registered)
         /\ m.ConnectedCount + m.ErrorCount <= m.ActiveConnections
         /\ (ev.quiet /\ ev.t0 = now)
              => /\ m.ConnectedCount = CountInState(StateConnected)
                 /\ m.ErrorCount = CountInState(StateError)

\* GetPoolMetrics has returned, with no health check during the call, from
\* a pool of one Connected and one Error entry
C16_Witness ==
    /\ ev.op = "GetPoolMetrics"
    /\ ev.quiet
    /\ ev.t0 = now
    /\ \E m \in ev.status :
         /\ m.ActiveConnections = 2
         /\ m.ConnectedCount = 1
         /\ m.ErrorCount = 1
         /\ m.TotalConnections > 0

\* C17: in every reachable state every entry in Connected state has
\* errorCount 0 and every entry in Error state has errorCount >= 1
C17_StateErrorCountCoupling ==
    \A e \in EntIds :
      /\ ents[e].State = StateConnected => ents[e].ErrorCount = 0
      /\ ents[e].State = StateError => ents[e].ErrorCount >= 1

\* one registry entry is Connected and has passed a health check, another
\* is in Error
C17_Witness ==
    \E e1, e2 \in EntIds :
      /\ ents[e1].State = StateConnected
      /\ ents[e1].LastPing > ents[e1].CreatedAt
      /\ successfulPings > 0
      /\ ents[e1].ErrorCount = 0
      /\ ents[e2].State = StateError
      /\ ents[e2].ErrorCount >= 1
      /\ connections[ents[e1].Name] = e1
      /\ connections[ents[e2].Name] = e2

\* C18: when Close returns, with nil, the registry is empty and the
\* monitor's context is cancelled, also when it is not the first Close; a
\* GetConnectionStatus right after it returns the synthesized Disconnected
\* status
C18_CloseEmptiesAndCancels ==
    /\ [](ev.op = "Close"
           => ev.err = "nil" /\ Registered = {} /\ cancelled)
    /\ [][(ev.op = "Close" /\ ev'.op = "GetConnectionStatus")
           => ev'.status = {[Name |-> ev'.name, State |-> StateDisconnected,
                             LastUsed |-> 0, LastPing |-> 0, ErrorCount |-> 0,
                             CreatedAt |-> 0]}]_vars

\* a second Close has returned on a pool that had tracked a name and
\* opened a handle for it, after the monitor has exited
C18_Witness ==
    /\ ev.op = "Close"
    /\ ev.again
    /\ mpc = "exit"
    /\ \E e \in EntIds : ents[e].Name \in Configured /\ handle[e] = "closed"

\* C19: the Close that returns has closed the handle of every registry entry
\* that has one, whatever the entry's state and whatever close errors it
\* met, has emptied the registry and returns nil
C19_CloseBestEffort ==
    [][\A c \in Callers :
         (pc[c] = "cl_conn" /\ ev'.op = "Close" /\ ev'.by = c)
         => /\ \A n \in Registered :
                 ents[connections[n]].DB # 0
                 => handle'[ents[connections[n]].DB] = "closed"
            /\ Registered' = {}
            /\ ev'.err = "nil"]_vars

\* Close has returned after a close error, having closed the handles of an
\* entry in Error state and of a Connected entry
C19_Witness ==
    /\ ev.op = "Close"
    /\ ev.errors >= 1
    /\ Registered = {}
    /\ \E e1, e2 \in EntIds :
         /\ ents[e1].State = StateError
         /\ ents[e1].DB # 0
         /\ handle[ents[e1].DB] = "closed"
         /\ ents[e2].State = StateConnected
         /\ ents[e2].DB # 0
         /\ handle[ents[e2].DB] = "closed"

\* entry e is the registry's entry of its name, left in Error by a failed
\* creation, in a pool that is not shut down, early enough for the ticker
\* to fire after max idle time
FailedIdle(e) ==
    /\ ents[e].Name \in Configured
    /\ connections[ents[e].Name] = e
    /\ ents[e].State = StateError
    /\ ents[e].ErrorCount = 1
    /\ ents[e].DB = 0
    /\ ~cancelled
    /\ enableKeepalive
    /\ ents[e].LastUsed + MaxIdleTime < MaxTime

\* entry e has been reaped, or a further GetConnection for its name has
\* replaced it, or the pool has been shut down
ReapedOrSuperseded(e) ==
    \/ cancelled
    \/ /\ ents[e].Name \in Configured
       /\ \/ connections[ents[e].Name] = 0
          \/ connections[ents[e].Name] # e

\* C20: with the monitor running, an entry left in Error by a failed
\* creation is eventually removed from the registry by the idle reaper,
\* unless a further GetConnection for its name replaces it first
C20_FailedEntryReaped ==
    \A e \in EntIds : FailedIdle(e) ~> ReapedOrSuperseded(e)

\* the reaper has removed an entry left in Error by a failed creation: the
\* pool is not shut down and no other entry was made for the name
C20_Witness ==
    /\ ~cancelled
    /\ mpc = "wait"
    /\ \E e \in EntIds :
         /\ ents[e].Name \in Configured
         /\ ents[e].State = StateError
         /\ ents[e].ErrorCount = 1
         /\ ents[e].DB = 0
         /\ connections[ents[e].Name] = 0
         /\ \A e2 \in EntIds \ {e} : ents[e2].Name # ents[e].Name

\* the monitor goroutine takes this step
MonitorMoved == <<mpc, snap, cur>>' # <<mpc, snap, cur>>

\* C21: when a GetConnection for a configured name returns, by the fast
\* path, after a successful or after a failed creation, the lastUsed of the
\* name's entry is the time at which the call ran, between its start and its
\* return; no step of the monitor changes the lastUsed of any entry
C21_LastUsedByCallersOnly ==
    /\ []((ev.op = "GetConnection" /\ ev.err # "notfound")
           => /\ connections[ev.name] # 0
              /\ ev.t0 >= 1
              /\ ents[connections[ev.name]].LastUsed >= ev.t0
              /\ ents[connections[ev.name]].LastUsed <= now)
    /\ [][MonitorMoved
           => \A e \in EntIds : ents'[e].LastUsed = ents[e].LastUsed]_vars

\* the monitor has pinged an entry after its last use, so that its idle
\* time has grown to one ping interval
C21_Witness ==
    \E e \in EntIds :
      /\ ents[e].Name \in Configured
      /\ connections[ents[e].Name] = e
      /\ ents[e].State = StateConnected
      /\ ents[e].LastPing > ents[e].LastUsed
      /\ now - ents[e].LastUsed >= 1
      /\ successfulPings > 0

\* C22: the createdAt of a name's entry is set at the first successful
\* open only: a failed first creation leaves it zero, and once set it keeps
\* its value for as long as the name has an entry, also when a later
\* GetConnection recreates the entry
C22_CreatedAtSetOnce ==
    /\ []((/\ ev.op = "GetConnection"
            /\ ev.err \in {"cred", "open", "ping"}
            /\ ev.old = 0)
           => ents[connections[ev.name]].CreatedAt = 0)
    /\ [][\A n \in Configured :
             (/\ connections[n] # 0
              /\ connections'[n] # 0
              /\ ents[connections[n]].CreatedAt # 0)
             => ents'[connections'[n]].CreatedAt
                  = ents[connections[n]].CreatedAt]_vars

\* the method caller c runs in this step
StepOp(c) ==
    IF pc[c] # "idle" THEN loc[c].op
    ELSE IF pc'[c] # "idle" THEN loc'[c].op
    ELSE IF ev'.by = c THEN ev'.op ELSE ""

\* C23: in a pool built with keep-alive disabled there is no monitor:
\* successfulPings and failedPings stay 0, no entry leaves the registry
\* except by Close, and the registry, the entries and the handles change
\* only in steps of GetConnection and of Close
C23_NoMonitorWhenDisabled ==
    /\ [](~enableKeepalive
           => /\ mpc = "off"
              /\ successfulPings = 0
              /\ failedPings = 0)
    /\ [][~enableKeepalive
           => /\ ~MonitorMoved
              /\ \A n \in AllNames :
                   (connections[n] # 0 /\ connections'[n] = 0)
                   => ev'.op = "Close"
              /\ (ents' # ents \/ connections' # connections \/ handle' # handle)
                   => \E c \in Callers :
                        StepOp(c) \in {"GetConnection", "Close"}]_vars

\* in a pool without monitor an entry in Error state has stayed in the
\* registry beyond max idle time, next to a Connected entry
C23_Witness ==
    /\ ~enableKeepalive
    /\ ~cancelled
    /\ \E e1, e2 \in EntIds :
         /\ ents[e1].Name \in Configured
         /\ connections[ents[e1].Name] = e1
         /\ ents[e1].State = StateError
         /\ now - ents[e1].LastUsed > MaxIdleTime
         /\ ents[e2].Name \in Configured
         /\ connections[ents[e2].Name] = e2
         /\ ents[e2].State = StateConnected

\* C24: TestConnection returns the error of its GetConnection when that
\* fails (not-found for an unconfigured name), and otherwise goes on to one
\* probe of the handle GetConnection returned and returns the probe's
\* result; the probe changes no pool state
C24_TestConnection ==
    /\ []((ev.op = "GetConnection" /\ ev.test)
           => /\ ev.name \notin Configured => ev.err = "notfound"
              /\ IF ev.err # "nil"
                   THEN pc[ev.by] = "idle" /\ ev.db = 0
                   ELSE /\ pc[ev.by] = "tc_ping"
                        /\ ev.db # 0
                        /\ loc[ev.by].conn = ev.db)
    /\ [](ev.op = "TestConnection"
           => /\ ev.err \in {"nil", "probe"}
              /\ ev.err = "nil" => handle[ev.db] = "open")
    /\ [][\A c \in Callers :
             (pc[c] = "tc_ping" /\ pc'[c] # "tc_ping")
             => /\ ev'.by = c
                /\ ev'.op = "TestConnection"
                /\ ev'.db = loc[c].conn
                /\ pc'[c] = "idle"
                /\ UNCHANGED <<connections, ents, handle, totalConnections,
                               successfulPings, failedPings>>]_vars

\* TestConnection has returned the error of its probe, on a handle that
\* its GetConnection had returned and that is still open
C24_Witness ==
    /\ ev.op = "TestConnection"
    /\ ev.err = "probe"
    /\ ev.db # 0
    /\ handle[ev.db] = "open"
    /\ ents[ev.db].State = StateConnected

\* C25: a failed creation leaves the name's errorCount one above what it
\* was before the call (0 for a name without entry), so that consecutive
\* failures add up
C25_FailuresAccumulate ==
    (ev.op = "GetConnection" /\ ev.err \in {"cred", "open", "ping"})
    => ents[connections[ev.name]].ErrorCount
         = (IF ev.old = 0 THEN 0 ELSE ents[ev.old].ErrorCount) + 1

\* the monitor's ping of entry e returns in this step, with the given result
MonitorPingOn(e, ok) ==
    /\ mpc = "ck_ping"
    /\ cur = e
    /\ MonitorMoved
    /\ IF ok THEN successfulPings' = successfulPings + 1
             ELSE failedPings' = failedPings + 1

\* a caller's creation of entry e returns in this step, with the given result
CreationOn(e, ok) ==
    \E c \in Callers :
      /\ pc[c] \in {"cc_raw", "cc_ping"}
      /\ loc[c].conn = e
      /\ ev'.by = c
      /\ ev'.op = "GetConnection"
      /\ (ev'.err = "nil") = ok

\* C26: the errorCount of an entry changes only by +1 in a failed monitor
\* ping or a failed creation of that entry, or to 0 in a successful monitor
\* ping or a successful creation of that entry; no other step (status and
\* metrics readers, fast path, TestConnection's probe, reap, Close) changes it
C26_ErrorCountFrame ==
    [][\A e \in EntIds :
         ents'[e].ErrorCount # ents[e].ErrorCount
         => \/ /\ ents'[e].ErrorCount = ents[e].ErrorCount + 1
               /\ MonitorPingOn(e, FALSE) \/ CreationOn(e, FALSE)
            \/ /\ ents'[e].ErrorCount = 0
               /\ MonitorPingOn(e, TRUE) \/ CreationOn(e, TRUE)]_vars

\* one registry entry has errorCount 1 from a failed monitor ping, another
\* from a failed creation, and a TestConnection probe has just returned
C26_Witness ==
    /\ ev.op = "TestConnection"
    /\ failedPings = 1
    /\ \E e1, e2 \in EntIds :
         /\ ents[e1].State = StateError
         /\ ents[e1].DB # 0
         /\ ents[e1].ErrorCount = 1
         /\ ents[e2].State = StateError
         /\ ents[e2].DB = 0
         /\ ents[e2].ErrorCount = 1

\* a Close has returned and none is in progress
CloseReturned ==
    cancelled /\ \A c \in Callers : pc[c] \notin {"cl_lock", "cl_conn"}

\* C27: the monitor never pings a handle that has been closed, and once
\* Close has returned no step of the monitor changes an entry or a pool
\* counter
C27_CloseSerializedWithTick ==
    /\ []((mpc = "ck_ping" /\ ents[cur].DB # 0)
           => handle[ents[cur].DB] = "open")
    /\ [][(MonitorMoved /\ CloseReturned)
           => /\ ents' = ents
              /\ handle' = handle
              /\ successfulPings' = successfulPings
              /\ failedPings' = failedPings]_vars

\* C28: once the context is cancelled the monitor eventually exits; from
\* the cancellation on it starts no new health-check pass (it only finishes
\* the one in flight, whose ping runs to its end), and once it has exited it
\* stays so
C28_MonitorStopsAfterCancel ==
    /\ (cancelled /\ enableKeepalive) ~> (mpc = "exit")
    /\ [][(cancelled /\ mpc = "wait") => mpc' \in {"wait", "exit"}]_vars
    /\ [][(cancelled /\ mpc = "ck_ping") => mpc' # "exit"]_vars
    /\ [][mpc = "exit" => mpc' = "exit"]_vars

\* C29: no step of the monitor allocates an entry, puts an entry in the
\* registry or opens a handle: a monitor step leaves a handle as it is or
\* closes it, and leaves a name's registry entry as it is or removes it;
\* the monitor pings only entries that hold a handle some GetConnection has
\* opened; entries are inserted and handles opened in steps of a caller's
\* GetConnection only
C29_MonitorNeverOpens ==
    /\ [](mpc = "ck_ping"
           => /\ ents[cur].DB # 0
              /\ handle[ents[cur].DB] # "unopened")
    /\ [][MonitorMoved
           => /\ nextEnt' = nextEnt
              /\ \A n \in AllNames : connections'[n] \in {connections[n], 0}
              /\ \A e \in EntIds :
                   /\ handle'[e] \in {handle[e], "closed"}
                   /\ handle[e] = "unopened" => handle'[e] = "unopened"
                   /\ ents'[e].DB \in {ents[e].DB, 0}]_vars
    /\ [][(\/ nextEnt' # nextEnt
            \/ \E n \in AllNames : connections'[n] \notin {connections[n], 0}
            \/ \E e \in EntIds : handle'[e] = "open" /\ handle[e] # "open")
           => /\ ~MonitorMoved
              /\ \E c \in Callers : StepOp(c) = "GetConnection"]_vars

\* the monitor has failed a ping, skipped an entry without handle and
\* reaped an entry, and the only handles ever opened are those of the
\* entries that GetConnection made
C29_Witness ==
    /\ mpc = "wait"
    /\ failedPings > 0
    /\ nextEnt = 2
    /\ totalConnections = 1
    /\ \E e \in EntIds :
         /\ ents[e].Name \in Configured
         /\ connections[ents[e].Name] = 0
         /\ ents[e].DB = 0
         /\ handle[e] = "unopened"
    /\ ~cancelled

\* the monitor's ping returns in this step
PingReturns == mpc = "ck_ping" /\ MonitorMoved

\* C30: a monitor ping that returns adds one to successfulPings when it
\* succeeded and one to failedPings when it failed, and leaves the other
\* counter; no other step changes either counter, so both never decrease
\* and their sum counts the monitor's pings
C30_PingCounters ==
    [][IF PingReturns
         THEN IF ents'[cur].State = StateError \/ ents'[cur].DB = 0
                THEN /\ failedPings' = failedPings + 1
                     /\ successfulPings' = successfulPings
                ELSE /\ successfulPings' = successfulPings + 1
                     /\ failedPings' = failedPings
         ELSE /\ successfulPings' = successfulPings
              /\ failedPings' = failedPings]_vars

\* the monitor has counted a successful and a failed ping, and the pool
\* has made a creation whose initial ping failed and a TestConnection probe
C30_Witness ==
    /\ successfulPings >= 1
    /\ failedPings >= 1
    /\ ev.op = "TestConnection"
    /\ \E e \in EntIds : ents[e].DB = 0 /\ handle[e] = "closed"

\* the state of name n as the registry shows it, "absent" without entry
NameState(n) ==
    IF connections[n] = 0 THEN "absent" ELSE ents[connections[n]].State

\* the edges of the documented state machine
DocumentedEdge(s, t) ==
    \/ s = "absent" /\ t = StateConnecting
    \/ s = StateConnecting /\ t \in {StateConnected, StateError}
    \/ s = StateConnected /\ t = StateError
    \/ s = StateError /\ t \in {StateConnected, StateDisconnected}
    \/ s = StateDisconnected /\ t \in {StateConnecting, "absent"}

\* C31: every state change of a name's entry follows an edge of the
\* documented state machine: Connecting goes only to Connected or Error,
\* Connected only to Error, Error only to Connected or Disconnected,
\* Disconnected only to Connecting or to removal; no entry is ever Idle
C31_DocumentedEdgesOnly ==
    /\ [](\A e \in EntIds : ents[e].State # StateIdle)
    /\ [][\A n \in AllNames :
             NameState(n)' # NameState(n)
             => DocumentedEdge(NameState(n), NameState(n)')]_vars
    /\ [][\A e \in EntIds :
             (e <= nextEnt /\ ents'[e].State # ents[e].State)
             => DocumentedEdge(ents[e].State, ents'[e].State)]_vars

\* C31 amended: as C31, and an entry in Error is also left to Connecting,
\* when the next GetConnection replaces it, and by removal, when the idle
\* reaper takes it; Close removes the entries whatever their state (for a
\* max error count of at least 2)
C31_EdgesWithRecreation ==
    /\ [](\A e \in EntIds : ents[e].State # StateIdle)
    /\ [][\A n \in AllNames :
             NameState(n)' # NameState(n)
             => \/ DocumentedEdge(NameState(n), NameState(n)')
                \/ /\ NameState(n) = StateError
                   /\ NameState(n)' = StateConnecting
                   /\ \E c \in Callers : StepOp(c) = "GetConnection"
                \/ /\ NameState(n) = StateError
                   /\ NameState(n)' = "absent"
                   /\ mpc = "cleanup"
                   /\ MonitorMoved
                \/ /\ NameState(n)' = "absent"
                   /\ ev'.op = "Close"]_vars
    /\ [][\A e \in EntIds :
             (e <= nextEnt /\ ents'[e].State # ents[e].State)
             => DocumentedEdge(ents[e].State, ents'[e].State)]_vars

\* a GetConnection has replaced a name's entry, which a failed monitor ping
\* had taken from Connected to Error, by a new entry in Connecting
C31_Witness ==
    \E c \in Callers :
      /\ pc[c] = "cc_raw"
      /\ loc[c].old # 0
      /\ loc[c].oldState = StateError
      /\ ents[loc[c].old].DB # 0
      /\ failedPings > 0
      /\ NameState(loc[c].name) = StateConnecting

\* the fields of an entry that its lock protects
Guarded(r) == <<r.State, r.DB, r.ErrorCount, r.LastUsed, r.LastPing>>

\* C32: every write to the state, handle, errorCount, lastUsed or lastPing of
\* an entry that is in the registry or was is made by a thread that holds
\* the entry's lock: the monitor between its Lock and its Unlock, a caller
\* that found the lock free and took it for the write; so no thread writes
\* an entry while another holds its lock
C32_LockDiscipline ==
    [][\A e \in EntIds :
         (e <= nextEnt /\ Guarded(ents'[e]) # Guarded(ents[e]))
         => IF MonitorMoved
              THEN /\ connMutex[e] = Mon
                   /\ cur = e
                   /\ connMutex'[e] = NoThread
              ELSE /\ connMutex[e] = NoThread
                   /\ \E c \in Callers : StepOp(c) = "GetConnection"]_vars

\* the monitor holds the lock of an entry for a ping, a GetConnection waits
\* for that lock to write lastUsed, and both a caller and the monitor have
\* written the entry before
C32_Witness ==
    /\ mpc = "ck_ping"
    /\ connMutex[cur] = Mon
    /\ ents[cur].LastPing > ents[cur].CreatedAt
    /\ ents[cur].LastUsed > ents[cur].CreatedAt
    /\ \E c \in Callers : pc[c] = "gc_conn" /\ loc[c].conn = cur

\* C33: the health check of an entry whose handle is nil is a no-op: it
\* sends no ping and leaves every entry, every handle, the registry and the
\* pool's successfulPings and failedPings as they are; the monitor changes
\* no entry without handle in any of its steps, such an entry changes only
\* in a GetConnection
C33_NilHandleCheckIsNoOp ==
    /\ [][(CheckDone /\ ents[cur].DB = 0)
           => /\ mpc = "ck_lock"
              /\ mpc' # "ck_ping"
              /\ UNCHANGED <<ents, handle, connections, connMutex,
                             successfulPings, failedPings,
                             totalConnections>>]_vars
    /\ [][\A e \in EntIds :
             (ents[e].DB = 0 /\ ents'[e] # ents[e])
             => /\ ~MonitorMoved
                /\ \E c \in Callers : StepOp(c) = "GetConnection"]_vars

\* a health-check pass has gone over an entry that a failed creation had
\* left without handle before the tick, and is at its end
C33_Witness ==
    /\ mpc = "cleanup"
    /\ \E e \in EntIds :
         /\ ents[e].Name \in Configured
         /\ connections[ents[e].Name] = e
         /\ ents[e].DB = 0
         /\ ents[e].State = StateError
         /\ ents[e].CreatedAt < now
         /\ \A c \in Callers : pc[c] = "idle"
    /\ successfulPings > 0

Threads == Callers \cup {Mon}

\* the threads that hold p.mutex, for writing or for reading
PoolHolders == (IF poolW = NoThread THEN {} ELSE {poolW}) \cup poolR

\* the entry whose lock thread t takes next, 0 when it takes none (a
\* creation takes it when its I/O has returned)
EntryWanted(t) ==
    IF t = Mon
      THEN IF mpc = "ck_lock" THEN cur ELSE 0
      ELSE IF pc[t] \in {"gc_conn", "gs_conn", "cc_raw", "cc_ping"}
             THEN loc[t].conn
             ELSE IF pc[t] \in {"it_conn", "cl_conn"}
                    THEN connections[loc[t].cur]
                    ELSE 0

\* thread t takes p.mutex next, for writing
WantsPoolWrite(t) ==
    IF t = Mon THEN mpc = "cleanup" ELSE pc[t] = "cl_lock"

\* thread t waits for a lock that thread u holds (a caller that has not
\* got past the first Lock of its method holds no lock and is idle here)
WaitsFor(t, u) ==
    \/ EntryWanted(t) # 0 /\ connMutex[EntryWanted(t)] = u
    \/ WantsPoolWrite(t) /\ u \in PoolHolders
    \/ t = Mon /\ mpc = "wait" /\ u = poolW

\* C34: with callers running any of the pool's methods next to the
\* monitor's health-check and idle-reap passes, no set of threads is such
\* that each of them waits for a lock held by one of them; the locks are
\* taken in one order: a thread that waits for the pool-wide lock holds no
\* entry lock
C34_DeadlockFree ==
    /\ \A S \in SUBSET Threads :
         S # {} => \E t \in S : ~ \E u \in S : WaitsFor(t, u)
    /\ \A t \in Threads :
         (WantsPoolWrite(t) \/ (t = Mon /\ mpc = "wait"))
         => \A e \in EntIds : connMutex[e] # t

\* a Close waits for the pool-wide lock, which a GetConnection holds while
\* it waits for the lock of an entry that the monitor holds for a ping
C34_Witness ==
    /\ mpc = "ck_ping"
    /\ WaitsFor("c2", "c1")
    /\ WaitsFor("c1", Mon)
    /\ pc["c2"] = "cl_lock"
    /\ pc["c1"] = "gc_conn"

\* the backend has been healthy so far and the pool is in use: no open,
\* initial ping or monitor ping has failed, nothing was closed, Close was
\* not called
HealthySoFar ==
    /\ ~cancelled
    /\ failedPings = 0
    /\ \A e \in EntIds : ents[e].State # StateError /\ handle[e] # "closed"

\* the entries ever made for name n
EntriesOf(n) == {e \in EntIds : e <= nextEnt /\ ents[e].Name = n}

\* C35: when callers call GetConnection for the same name concurrently, the
\* name has no entry yet and the backend is healthy, one entry is made and
\* one raw handle opened for the name, every caller gets that handle, and
\* totalConnections counts one creation per name
C35_ConcurrentFirstUse ==
    HealthySoFar
    => /\ \A n \in Configured :
            /\ Cardinality(EntriesOf(n)) <= 1
            /\ \A e \in EntIds :
                 (ents[e].Name = n /\ handle[e] # "unopened") => connections[n] = e
       /\ totalConnections =
            Cardinality({e \in EntIds : ents[e].State = StateConnected})
       /\ (ev.op = "GetConnection" /\ ev.err = "nil")
            => /\ ev.db = connections[ev.name]
               /\ ents[ev.db].DB = ev.db
               /\ handle[ev.db] = "open"
       /\ \A c \in Callers :
            pc[c] = "tc_ping" => loc[c].conn = connections[loc[c].name]

\* two callers have called GetConnection for the same new name in the same
\* instant: the first has made the entry and holds its handle, the second
\* has just got the same handle, and one creation is counted
C35_Witness ==
    /\ HealthySoFar
    /\ ev.by = "c2"
    /\ ev.op = "GetConnection"
    /\ ev.err = "nil"
    /\ ev.t0 = ents[ev.db].CreatedAt
    /\ pc["c1"] = "tc_ping"
    /\ loc["c1"].name = ev.name
    /\ loc["c1"].conn = ev.db
    /\ pc["c2"] = "idle"
    /\ totalConnections = 1
    /\ nextEnt = 1

C37_ShutdownFinal ==
    CloseReturned
    => /\ Registered = {}
       /\ \A e \in EntIds : handle[e] # "open"

\* the pool closes handle h in this step
ClosesHandle(h) ==
    \/ \E c \in Callers :
         /\ pc[c] = "cl_conn"
         /\ loc'[c] # loc[c]
         /\ ents[connections[loc[c].cur]].DB = h
    \/ /\ mpc = "cleanup"
       /\ MonitorMoved
       /\ \E n \in ToRemove : ents[connections[n]].DB = h
    \/ /\ mpc = "ck_ping"
       /\ MonitorMoved
       /\ ents[cur].DB = h
       /\ ents'[cur].DB = 0
    \/ \E c \in Callers :
         /\ pc[c] = "cc_ping"
         /\ loc[c].conn = h
         /\ handle'[h] = "closed"

\* the monitor sends a ping on handle h in this step
PingsHandle(h) ==
    /\ mpc = "ck_lock"
    /\ mpc' = "ck_ping"
    /\ ents[cur].DB = h

\* C38: the pool closes each raw handle at most once: no step of the health
\* check, of the idle reaper, of a creation or of Close closes or pings a
\* handle that the pool has closed before
C38_ClosedAtMostOnce ==
    [][\A h \in EntIds :
         handle[h] = "closed" => ~ClosesHandle(h) /\ ~PingsHandle(h)]_vars

\* the locks thread t holds: 0 is p.mutex, e > 0 the lock of entry e
LocksHeld(t) ==
    (IF t \in PoolHolders THEN {0} ELSE {}) \cup {e \in EntIds : connMutex[e] = t}

\* the pool counters, the two ping counters taken together
Counters == {"totalConnections", "pings"}

\* the next statement of thread t writes counter k: totalConnections++
\* after the initial ping, successfulPings++ or failedPings++ after the
\* monitor's ping
WritesCounter(t, k) ==
    IF t = Mon THEN mpc = "ck_ping" /\ k = "pings"
               ELSE pc[t] = "cc_ping" /\ k = "totalConnections"

\* thread t is in the last iteration of GetPoolMetrics and the entry's lock
\* is free: what it has left is the read of the entry and of the counters
ReadsCounter(t, k) ==
    /\ t \in Callers
    /\ pc[t] = "it_conn"
    /\ loc[t].op = "GetPoolMetrics"
    /\ loc[t].todo = {loc[t].cur}
    /\ connMutex[connections[loc[t].cur]] = NoThread

\* C39: no pool counter is written by one thread while another reads or
\* writes it: whenever a thread is about to write totalConnections,
\* successfulPings or failedPings and another is about to read or write the
\* same counter, the two hold a lock in common
C39_CountersGuarded ==
    \A k \in Counters : \A w \in Threads : \A r \in Threads \ {w} :
      (WritesCounter(w, k) /\ (ReadsCounter(r, k) \/ WritesCounter(r, k)))
      => LocksHeld(w) \cap LocksHeld(r) # {}

\* C40: every registry entry in Connected state holds a handle that is not
\* nil and not closed, every registry entry in Disconnected or Connecting
\* state holds no handle, and no registry entry without handle is Connected
C40_HandleStateCoupling ==
    \A n \in Registered :
      LET r == ents[connections[n]] IN
        /\ r.State = StateConnected => r.DB # 0 /\ handle[r.DB] = "open"
        /\ r.State \in {StateDisconnected, StateConnecting} => r.DB = 0
        /\ r.DB = 0 => r.State # StateConnected

====
